---- MODULE Spec2Model ----
(***************************************************************************)
(* State-machine model of the session-scoped RAG backend:                  *)
(*   backend/app/api/v1/session_rag.py   (session ingestion and ask)       *)
(*   backend/app/api/v1/ai.py            (global documents and index)      *)
(*   backend/app/api/v1/chat.py          (@paper chat entry point)         *)
(*   backend/app/services/rag_service.py (RAGService)                      *)
(*   backend/app/services/express_client.py (registry client)              *)
(* Every request handler is one action.  Results of the external           *)
(* collaborators (PDF download, PDF loader, Pinecone, BM25 fit, LLM,       *)
(* registry reachability) are inputs drawn with \E.                        *)
(***************************************************************************)
EXTENDS Integers, Sequences, FiniteSets, TLC

(* ------------------------------ bounds --------------------------------- *)
\* largest number of chunks one PDF is split into
MaxChunks == 2
\* the index never holds more vectors than this (guards of the upserts)
MaxIndex == 3
\* number of index recreations followed
MaxRecreate == 1
\* largest number of text lines of one PDF
MaxLines == 4
\* largest number of entries of a metadata dictionary
MaxKeys == 2
\* chunks of the file ingested batch by batch
MaxBatch == 3

(* ------------------- program constants (scaled down) ------------------- *)
\* BATCH_SIZE = 100 in the code; one vector per batch here, so that a
\* document of MaxChunks chunks is upserted in more than one batch
BATCH_SIZE == 1
\* remove_document_chunks scans with top_k = min(10000, total); the cap is
\* scaled to 2 so that an index of MaxIndex vectors exceeds it
SCAN_CAP == 2
\* ask and ask_scoped show the first five reranked documents; scaled to 2
SOURCES_SHOWN == 2
\* TOP_K = 20, the k of the retriever and the default of
\* QuestionRequest.top_k; scaled to 2
TOP_K == 2
\* title[:30] in the download-failure path and safe_title[:50] otherwise,
\* scaled to 1 and 2 characters
FAIL_TITLE_LEN == 1
SAFE_TITLE_LEN == 2
\* lengths of text are counted in lines: CHUNK_SIZE = 1000 and
\* CHUNK_OVERLAP = 200 characters become 2 lines and 1 line
CHUNK_SIZE == 2
CHUNK_OVERLAP == 1
\* a section longer than 1200 characters is split into pieces of 800
\* characters overlapping by 150: 3, 2 and 1 lines
SECTION_SPLIT_THRESHOLD == 3
SECTION_SPLIT_SIZE == 2
SECTION_SPLIT_OVERLAP == 1

Papers == {1}
Sessions == {1}
Users == {7, 8}

(* ------------------------------ names ---------------------------------- *)
\* A file name or path is a sequence of characters/tokens; "in" on Python
\* strings is contiguous containment on these sequences.
Contains(hay, needle) ==
    \E i \in 1..(Len(hay) - Len(needle) + 1) :
        SubSeq(hay, i, i + Len(needle) - 1) = needle

INPUT_FOLDER == <<"data", "/", "input">>

\* os.path.join(input_folder, name) / Path(input_folder) / name
JoinInput(name) == INPUT_FOLDER \o <<"/">> \o name

\* os.path.basename: what follows the last "/"
Basename(path) ==
    LET slashes == {i \in 1..Len(path) : path[i] = "/"}
        last == IF slashes = {} THEN 0
                ELSE CHOOSE i \in slashes : \A j \in slashes : j <= i
    IN  SubSeq(path, last + 1, Len(path))

Take(s, k) == SubSeq(s, 1, IF Len(s) < k THEN Len(s) ELSE k)

Alnum == {"a", "b"}
\* "".join(c for c in title if c.isalnum() or c in (' ', '-', '_'))
KeepSafe(title) == SelectSeq(title, LAMBDA c : c \in Alnum \cup {" ", "-", "_"})

RECURSIVE RStrip(_)
RStrip(s) == IF s # <<>> /\ s[Len(s)] = " " THEN RStrip(SubSeq(s, 1, Len(s) - 1)) ELSE s

\* str.replace(' ', '_')
ReplaceSpaces(s) == [i \in 1..Len(s) |-> IF s[i] = " " THEN "_" ELSE s[i]]

PidTok(p) == IF p = 1 THEN "1" ELSE IF p = 2 THEN "2" ELSE "3"

\* session_rag.py:112-113
AutoFileName(p, title) ==
    <<"paper_", PidTok(p), "_">>
        \o ReplaceSpaces(Take(RStrip(KeepSafe(title)), SAFE_TITLE_LEN)) \o <<".pdf">>

\* session_rag.py:101
FailedFileName(p, title) ==
    <<"paper_", PidTok(p), "_">> \o Take(ReplaceSpaces(title), FAIL_TITLE_LEN) \o <<".pdf">>

\* session_rag.py:236
SessionUploadName(p, filename) == <<"paper_", PidTok(p), "_">> \o filename

\* the titles a paper is submitted with (form field of auto-process): one
\* that both file-name rules leave alone and one that they cut differently
Titles == {<<"a">>, <<"a", "b">>}

\* file names of documents uploaded through /ai/documents/upload and
\* /session-rag/{s}/papers/upload
UploadNames == {<<"P", ".pdf">>, <<"X", "P", ".pdf">>}
SessionUploadFiles == {<<"P", ".pdf">>}

DOWNLOAD_FAILED == <<"download_failed">>

(* ------------------------------ state ---------------------------------- *)
VARIABLES
    reg,        \* registry: ingestion record of each paper (Express DB)
    rag,        \* registry: RAG state of each session
    members,    \* registry: papers linked to each session
    disk,       \* names of the files in the input folder
    index,      \* vectors of the Pinecone index: [src, n]
    idxGen,     \* generation of the index (changes when it is recreated)
    idxHybrid,  \* the index accepts sparse vectors
    embCache,   \* _embeddings_cache holds a client
    bm25,       \* _bm25_encoder_cache: "none", "unfitted" or "fitted"
    vsCache,    \* _vector_store_cache
    qaCache,    \* _qa_chain_cache
    last        \* outcome of the last request

vars == <<reg, rag, members, disk, index, idxGen, idxHybrid, embCache, bm25,
          vsCache, qaCache, last>>

Statuses == {"pending", "processing", "completed", "failed"}

NoDoc == [status |-> "none", file_name |-> <<>>, file_path |-> <<>>, chunks_count |-> 0]
NoCache == [set |-> FALSE, hybrid |-> FALSE, gen |-> 0]
NoRag == [known |-> FALSE, is_rag_enabled |-> FALSE, enabled_by |-> 0]

\* outcome record of a request; every handler fills the fields it decides
NoOp == [op |-> "none", paper |-> 0, http |-> 200, msg |-> "",
         sources |-> {}, llm |-> FALSE, queried |-> FALSE,
         encUnfitted |-> FALSE, sparse |-> FALSE, setProcessing |-> FALSE,
         writes |-> <<>>, fallback |-> FALSE, removed |-> 0, arg |-> <<>>,
         fitRaised |-> FALSE, staleHandle |-> FALSE, by |-> 0,
         steps |-> <<>>, meta |-> {}, top_k |-> 0, total |-> 0]

Init ==
    /\ reg = [p \in Papers |-> NoDoc]
    /\ rag = [s \in Sessions |-> NoRag]
    /\ members = [s \in Sessions |-> {}]
    /\ disk = {}
    /\ index = {}
    /\ idxGen = 0
    /\ idxHybrid \in BOOLEAN
    /\ embCache = FALSE
    /\ bm25 = "none"
    /\ vsCache = NoCache
    /\ qaCache = NoCache
    /\ last = NoOp

(* --------------------------- registry client --------------------------- *)
\* ExpressDBClient._make_request returns None on every failure; `up` says
\* whether the registry answers during the request.

\* get_rag_document_by_paper_id
GetRagDocument(r, p, up) == IF up THEN r[p] ELSE NoDoc

\* create_rag_document: a new record starts in pending; a second record for
\* the same paper is refused
CreateRagDocument(r, p, fn, fp, up) ==
    IF up /\ r[p].status = "none"
    THEN [r EXCEPT ![p] = [status |-> "pending", file_name |-> fn,
                           file_path |-> fp, chunks_count |-> 0]]
    ELSE r

\* update_rag_document_status: the status endpoint changes the status (and
\* chunks_count when given), never the file details
UpdateRagStatus(r, p, st, up) ==
    IF up /\ r[p].status # "none" THEN [r EXCEPT ![p].status = st] ELSE r

UpdateRagCompleted(r, p, n, up) ==
    IF up /\ r[p].status # "none"
    THEN [r EXCEPT ![p].status = "completed", ![p].chunks_count = n]
    ELSE r

\* the status writes of one request, as <<from, to>> pairs
Wrote(r1, r2, p) == IF r1[p].status # r2[p].status
                    THEN <<(<<r1[p].status, r2[p].status>>)>> ELSE <<>>

\* a status read that never finds the row
GetSessionRagStatusNone(s, up) == NoRag

\* get_session_rag_status: the row of the session, None when there is no
\* row or the registry cannot be reached
GetSessionRagStatus(s, up) == IF up /\ rag[s].known THEN rag[s] ELSE NoRag

\* get_session_papers_with_rag_status: the papers of the session joined
\* with their ingestion records
SessionPapers(s, up) == IF up THEN members[s] ELSE {}

(* ------------------------------ RAGService ----------------------------- *)
\* the process-level caches, passed through the service operations
Proc == [emb |-> embCache, enc |-> bm25, vs |-> vsCache, qa |-> qaCache]

\* what the collaborators do during one upload_document:
\*   load    PyPDFLoader loads the file
\*   n       number of chunks the document is split into
\*   store   Pinecone can be initialised
\*   fit     BM25Encoder.fit succeeds
\*   hyb     the index accepts an upsert that carries sparse values
\*   failAt  first batch whose upsert fails twice (the number of batches: none)
UploadInputs ==
    {in \in [load : BOOLEAN, n : 0..MaxChunks, store : BOOLEAN, fit : BOOLEAN,
             hyb : BOOLEAN, failAt : 0..MaxChunks] :
        /\ in.failAt <= in.n
        /\ (~in.load => in.n = 0)
        /\ (in.n = 0 => in.store)
        /\ (~in.store => in.failAt = in.n)
        /\ (~in.store \/ in.failAt = 0 => in.fit /\ in.hyb)}

\* the inputs of a request that never reaches upload_document
NoUpload == [load |-> FALSE, n |-> 0, store |-> TRUE, fit |-> TRUE, hyb |-> TRUE,
             failAt |-> 0]

\* validate_index_for_hybrid_search: the probe query with a sparse vector
ValidateIndexForHybridSearch(supports) == supports

\* RAGService.get_vector_store
GetVectorStore(pr, storeOk) ==
    IF pr.vs.set THEN [ok |-> TRUE, pr |-> pr]
    ELSE IF ~storeOk THEN [ok |-> FALSE, pr |-> [pr EXCEPT !.emb = TRUE]]
    ELSE LET enc == IF pr.enc = "none" THEN "unfitted" ELSE pr.enc
         IN  [ok |-> TRUE,
              pr |-> [pr EXCEPT !.emb = TRUE, !.enc = enc,
                        !.vs = [set |-> TRUE,
                                hybrid |-> ValidateIndexForHybridSearch(idxHybrid),
                                gen |-> idxGen]]]

\* RAGService.get_qa_chain
GetQaChain(pr, storeOk) ==
    IF pr.qa.set THEN [ok |-> TRUE, pr |-> pr]
    ELSE LET g == GetVectorStore(pr, storeOk)
         IN  IF ~g.ok THEN g
             ELSE [ok |-> TRUE,
                   pr |-> [g.pr EXCEPT !.qa = [set |-> TRUE,
                                               hybrid |-> g.pr.vs.hybrid,
                                               gen |-> g.pr.vs.gen]]]

NumBatches(n) == (n + BATCH_SIZE - 1) \div BATCH_SIZE

\* the guard of the sparse encoding of a batch (rag_service.py:1030)
MayEncodeDocuments(hybrid, enc) == hybrid /\ enc = "fitted"

\* RAGService.upsert_documents_to_index for the n chunks of the file src
UpsertDocumentsToIndex(pr, idx, src, n, in) ==
    IF n = 0 THEN [raised |-> FALSE, count |-> 0, pr |-> pr, index |-> idx,
                   sparse |-> FALSE, fitRaised |-> FALSE, encUnfitted |-> FALSE,
                   ids |-> {}, stale |-> FALSE]
    ELSE
    LET g == GetVectorStore(pr, in.store) IN
    IF ~g.ok THEN [raised |-> TRUE, count |-> 0, pr |-> g.pr, index |-> idx,
                   sparse |-> FALSE, fitRaised |-> FALSE, encUnfitted |-> FALSE,
                   ids |-> {}, stale |-> FALSE]
    ELSE
    LET hybrid == g.pr.vs.hybrid
        mustFit == hybrid /\ g.pr.enc = "unfitted"
        enc1 == IF mustFit /\ in.fit THEN "fitted" ELSE g.pr.enc
        encode == MayEncodeDocuments(hybrid, enc1)
        done == {i \in 0..(n - 1) : (i \div BATCH_SIZE) < in.failAt}
        new == {[src |-> src, n |-> i] : i \in done}
    IN  [raised |-> in.failAt < NumBatches(n),
         count |-> Cardinality(done),
         pr |-> [g.pr EXCEPT !.enc = enc1],
         index |-> idx \cup new,
         sparse |-> encode /\ in.hyb /\ done # {},
         fitRaised |-> mustFit /\ ~in.fit,
         encUnfitted |-> encode /\ enc1 # "fitted",
         ids |-> new,
         stale |-> g.pr.vs.gen # idxGen]

\* RAGService.upload_document(file, upsert_to_index=True)
UploadDocument(pr, idx, dk, fname, in) ==
    LET dk1 == dk \cup {fname}
        none == [raised |-> FALSE, upserted |-> FALSE, chunks_upserted |-> 0,
                 upsert_error |-> FALSE, pr |-> pr, index |-> idx, disk |-> dk1,
                 sparse |-> FALSE, fitRaised |-> FALSE, encUnfitted |-> FALSE,
                 ids |-> {}, stale |-> FALSE]
    IN  IF ~in.load THEN [none EXCEPT !.raised = TRUE]
        ELSE IF in.n = 0 THEN none
        ELSE LET u == UpsertDocumentsToIndex(pr, idx, JoinInput(fname), in.n, in)
             IN  [none EXCEPT !.upserted = ~u.raised,
                              !.chunks_upserted = IF u.raised THEN 0 ELSE u.count,
                              !.upsert_error = u.raised,
                              !.pr = u.pr, !.index = u.index,
                              !.sparse = u.sparse, !.fitRaised = u.fitRaised,
                              !.encUnfitted = u.encUnfitted, !.ids = u.ids,
                              !.stale = u.stale]

\* the test both ingestion handlers apply to the result (session_rag.py:166)
UploadSucceeded(result) == result.upserted /\ result.chunks_upserted > 0

SetProc(res) ==
    /\ embCache' = res.pr.emb
    /\ bm25' = res.pr.enc
    /\ vsCache' = res.pr.vs
    /\ qaCache' = res.pr.qa

(* ----------------------- session ingestion handlers -------------------- *)
\* the test without its early return
AlreadyCompletedNever(doc) == FALSE

\* the "already processed" test of both handlers (session_rag.py:67, 292)
AlreadyCompleted(doc) == doc.status = "completed"

\* os.path.exists(file_path) for a path recorded in the registry
FileExists(dk, path) == \E f \in dk : JoinInput(f) = path

\* the registry after a failed download (session_rag.py:89-108)
DownloadFailed(r, doc, p, title, up) ==
    IF doc.status # "none"
    THEN <<r, UpdateRagStatus(r, p, "failed", up)>>
    ELSE LET c == CreateRagDocument(r, p, FailedFileName(p, title), DOWNLOAD_FAILED, up)
         IN  <<c, UpdateRagStatus(c, p, "failed", up)>>

\* the registry entry before processing starts (session_rag.py:123-136)
CreateOrReset(r, doc, p, fn, up) ==
    IF doc.status = "none"
    THEN CreateRagDocument(r, p, fn, JoinInput(fn), up)
    ELSE UpdateRagStatus(r, p, "pending", up)

\* POST /session-rag/{s}/papers/auto-process
\*   up: the registry answers; dl: the PDF download succeeds
AutoProcess(s, p, title) ==
    \E up \in BOOLEAN, dl \in BOOLEAN, in \in UploadInputs :
    /\ (~up \/ ~dl \/ AlreadyCompleted(reg[p])) => in = NoUpload
    /\ AlreadyCompleted(reg[p]) => dl
    /\ LET doc == GetRagDocument(reg, p, up)
           fn == AutoFileName(p, title)
           base == [NoOp EXCEPT !.op = "auto_process", !.paper = p]
       IN
       IF AlreadyCompleted(doc) THEN
           /\ last' = [base EXCEPT !.msg = "already_completed"]
           /\ UNCHANGED <<reg, rag, members, disk, index, idxGen, idxHybrid,
                          embCache, bm25, vsCache, qaCache>>
       ELSE IF ~dl THEN
           LET d == DownloadFailed(reg, doc, p, title, up) IN
           /\ reg' = d[2]
           /\ last' = [base EXCEPT !.http = 400, !.msg = "download_failed",
                          !.writes = Wrote(reg, d[1], p) \o Wrote(d[1], d[2], p)]
           /\ UNCHANGED <<rag, members, disk, index, idxGen, idxHybrid,
                          embCache, bm25, vsCache, qaCache>>
       ELSE
           LET r1 == CreateOrReset(reg, doc, p, fn, up)
               created == up /\ r1[p].status # "none"
           IN
           IF ~created THEN
               \* the saved file is removed again (session_rag.py:138-142)
               /\ disk' = disk \ {fn}
               /\ last' = [base EXCEPT !.http = 500, !.msg = "no_rag_document"]
               /\ UNCHANGED <<reg, rag, members, index, idxGen, idxHybrid,
                              embCache, bm25, vsCache, qaCache>>
           ELSE
               LET r2 == UpdateRagStatus(r1, p, "processing", up)
                   res == UploadDocument(Proc, index, disk \cup {fn}, fn, in)
                   ok == ~res.raised /\ UploadSucceeded(res)
                   r3 == IF ok THEN UpdateRagCompleted(r2, p, res.chunks_upserted, up)
                         ELSE UpdateRagStatus(r2, p, "failed", up)
               IN
               /\ Cardinality(res.index) <= MaxIndex
               /\ reg' = r3
               /\ disk' = res.disk
               /\ index' = res.index
               /\ SetProc(res)
                       /\ last' = [base EXCEPT
                     !.http = IF ok THEN 200 ELSE 500,
                     !.msg = IF ok THEN "completed" ELSE "processing_failed",
                     !.setProcessing = (r2[p].status = "processing"),
                     !.writes = Wrote(reg, r1, p) \o Wrote(r1, r2, p) \o Wrote(r2, r3, p),
                     !.sparse = res.sparse, !.fitRaised = res.fitRaised,
                     !.encUnfitted = res.encUnfitted,
                     !.staleHandle = res.stale]
               /\ UNCHANGED <<rag, members, idxGen, idxHybrid>>

\* the registry when upload_document has raised inside process_paper_for_rag:
\* the HTTPException is re-raised by "except HTTPException: raise"
\* (session_rag.py:373-374), no status is written
ProcessRaised(r, p, up) == r

\* POST /session-rag/{s}/papers/{p}/process
ProcessPaper(s, p) ==
    \E up \in BOOLEAN, in \in UploadInputs :
    /\ (~up \/ reg[p].status \in {"none", "completed"}
            \/ ~FileExists(disk, reg[p].file_path)) => in = NoUpload
    /\ LET doc == GetRagDocument(reg, p, up)
           base == [NoOp EXCEPT !.op = "process_paper", !.paper = p]
       IN
       IF doc.status = "none" THEN
           /\ last' = [base EXCEPT !.http = 404, !.msg = "no_rag_document"]
           /\ UNCHANGED <<reg, rag, members, disk, index, idxGen, idxHybrid,
                          embCache, bm25, vsCache, qaCache>>
       ELSE IF AlreadyCompleted(doc) THEN
           /\ last' = [base EXCEPT !.msg = "already_completed"]
           /\ UNCHANGED <<reg, rag, members, disk, index, idxGen, idxHybrid,
                          embCache, bm25, vsCache, qaCache>>
       ELSE
           LET r1 == UpdateRagStatus(reg, p, "processing", up) IN
           IF ~FileExists(disk, doc.file_path) THEN
               LET r2 == UpdateRagStatus(r1, p, "failed", up) IN
               /\ reg' = r2
               /\ last' = [base EXCEPT !.http = 404, !.msg = "file_not_found",
                              !.setProcessing = (r1[p].status = "processing"),
                              !.writes = Wrote(reg, r1, p) \o Wrote(r1, r2, p)]
               /\ UNCHANGED <<rag, members, disk, index, idxGen, idxHybrid,
                              embCache, bm25, vsCache, qaCache>>
           ELSE
               LET res == UploadDocument(Proc, index, disk, doc.file_name, in)
                   ok == ~res.raised /\ UploadSucceeded(res)
                   r2 == IF res.raised THEN ProcessRaised(r1, p, up)
                         ELSE IF ok THEN UpdateRagCompleted(r1, p, res.chunks_upserted, up)
                         ELSE UpdateRagStatus(r1, p, "failed", up)
               IN
               /\ Cardinality(res.index) <= MaxIndex
               /\ reg' = r2
               /\ disk' = res.disk
               /\ index' = res.index
               /\ SetProc(res)
                       /\ last' = [base EXCEPT
                     !.http = IF ok THEN 200 ELSE 500,
                     !.msg = IF ok THEN "completed" ELSE "processing_failed",
                     !.setProcessing = (r1[p].status = "processing"),
                     !.writes = Wrote(reg, r1, p) \o Wrote(r1, r2, p),
                     !.sparse = res.sparse, !.fitRaised = res.fitRaised,
                     !.encUnfitted = res.encUnfitted,
                     !.staleHandle = res.stale]
               /\ UNCHANGED <<rag, members, idxGen, idxHybrid>>

\* POST /session-rag/{s}/papers/upload
UploadPaperToSession(s, p) ==
    \E up \in BOOLEAN, f \in SessionUploadFiles :
    LET fn == SessionUploadName(p, f)
        r1 == CreateRagDocument(reg, p, fn, JoinInput(fn), up)
        created == r1 # reg
    IN
    /\ reg' = r1
    /\ disk' = IF created THEN disk \cup {fn} ELSE disk \ {fn}
    /\ last' = [NoOp EXCEPT !.op = "upload_paper", !.paper = p,
                   !.http = IF created THEN 200 ELSE 500,
                   !.writes = Wrote(reg, r1, p)]
    /\ UNCHANGED <<rag, members, index, idxGen, idxHybrid,
                   embCache, bm25, vsCache, qaCache>>

\* POST /ai/documents/upload
UploadGlobal(f) ==
    \E in \in UploadInputs :
    LET res == UploadDocument(Proc, index, disk, f, in) IN
    /\ Cardinality(res.index) <= MaxIndex
    /\ disk' = res.disk
    /\ index' = res.index
    /\ SetProc(res)
    /\ last' = [NoOp EXCEPT !.op = "upload_document", !.arg = f,
                   !.http = IF res.raised THEN 500 ELSE 200,
                   !.sparse = res.sparse, !.fitRaised = res.fitRaised,
                   !.encUnfitted = res.encUnfitted,
                     !.staleHandle = res.stale]
    /\ UNCHANGED <<reg, rag, members, idxGen, idxHybrid>>

(* --------------------------- document removal -------------------------- *)
\* subsets of S with exactly k elements
SubsetsOfSize(S, k) == {T \in SUBSET S : Cardinality(T) = k}

Min(a, b) == IF a < b THEN a ELSE b

\* the matches of the scan query of remove_document_chunks: the dummy
\* vector scores every vector alike, so any top_k of them may come back
ScanResults(idx) == SubsetsOfSize(idx, Min(SCAN_CAP, Cardinality(idx)))

\* the match test on metadata.source (rag_service.py:1450-1452)
SourceMatches(documentName, src) == Contains(src, documentName)

\* RAGService.remove_document_chunks
\*   scan      matches returned by the scan query
\*   outcome   "ok", "scan_raises" or "delete_raises"
\*   deleted   ids deleted before a batch delete raised
\*   fb        the fallback delete-by-filter succeeds
RemoveDocumentChunks(pr, idx, documentName, storeOk, scan, outcome, deleted, fb) ==
    LET g == GetVectorStore(pr, storeOk)
        matching == {c \in scan : SourceMatches(documentName, c.src)}
        fallback(i) ==
            IF fb THEN [raised |-> FALSE, count |-> 1, pr |-> g.pr,
                        index |-> {c \in i : c.src # documentName}]
            ELSE [raised |-> TRUE, count |-> 0, pr |-> g.pr, index |-> i]
    IN  IF ~g.ok THEN [raised |-> TRUE, count |-> 0, pr |-> g.pr, index |-> idx]
        ELSE IF outcome = "scan_raises" THEN fallback(idx)
        ELSE IF matching = {} THEN
            [raised |-> FALSE, count |-> 0, pr |-> g.pr, index |-> idx]
        ELSE IF outcome = "delete_raises" THEN fallback(idx \ (deleted \cap matching))
        ELSE [raised |-> FALSE, count |-> Cardinality(matching), pr |-> g.pr,
              index |-> idx \ matching]

RemoveInputs(idx) ==
    {in \in [scan : ScanResults(idx), outcome : {"ok", "scan_raises", "delete_raises"},
             deleted : {{}} \cup {{c} : c \in idx}, fb : BOOLEAN, store : BOOLEAN] :
        /\ (in.outcome = "ok" => in.fb)
        /\ (in.outcome # "delete_raises" => in.deleted = {})
        /\ in.deleted \subseteq in.scan
        /\ (~in.store => in.outcome = "ok")}

\* the inputs of a request that never reaches remove_document_chunks
NoRemove(idx) == CHOOSE in \in RemoveInputs(idx) : in.outcome = "ok" /\ in.store

DocumentNames == UploadNames \cup {AutoFileName(p, t) : p \in Papers, t \in Titles}

\* DELETE /ai/documents/remove
RemoveDocument(name) ==
    \E in \in RemoveInputs(index) :
    LET res == RemoveDocumentChunks(Proc, index, name, in.store, in.scan,
                                    in.outcome, in.deleted, in.fb)
    IN
    /\ index' = res.index
    /\ SetProc(res)
    /\ disk' = IF res.raised THEN disk ELSE disk \ {name}
    /\ last' = [NoOp EXCEPT !.op = "remove_document", !.arg = name,
                   !.http = IF res.raised THEN 500 ELSE 200,
                   !.removed = res.count,
                   !.msg = IF res.raised THEN "error"
                           ELSE IF in.outcome = "ok" THEN "scanned" ELSE "fallback"]
    /\ UNCHANGED <<reg, rag, members, idxGen, idxHybrid>>

\* DELETE /session-rag/{s}/papers/{p}
RemovePaperFromSession(s, p) ==
    \E up \in BOOLEAN, in \in RemoveInputs(index) :
    /\ (~up \/ reg[p].status # "completed") => in = NoRemove(index)
    /\ LET doc == GetRagDocument(reg, p, up)
           base == [NoOp EXCEPT !.op = "remove_paper", !.paper = p]
           res == IF doc.status = "completed"
                  THEN RemoveDocumentChunks(Proc, index, doc.file_name, in.store,
                                            in.scan, in.outcome, in.deleted, in.fb)
                  ELSE [raised |-> FALSE, count |-> 0, pr |-> Proc, index |-> index]
       IN
       IF doc.status = "none" THEN
           /\ last' = [base EXCEPT !.http = 404, !.msg = "no_rag_document"]
           /\ UNCHANGED <<reg, rag, members, disk, index, idxGen, idxHybrid,
                          embCache, bm25, vsCache, qaCache>>
       ELSE
           /\ index' = res.index
           /\ SetProc(res)
           /\ disk' = IF res.raised THEN disk
                      ELSE {f \in disk : JoinInput(f) # doc.file_path}
           /\ last' = [base EXCEPT !.http = IF res.raised THEN 500 ELSE 200,
                          !.removed = res.count, !.arg = doc.file_name]
           /\ UNCHANGED <<reg, rag, members, idxGen, idxHybrid>>

\* GET /ai/documents/list: the names among the first 10000 (SCAN_CAP) matches
ListDocuments ==
    \E storeOk \in BOOLEAN, sc \in ScanResults(index) :
    LET g == GetVectorStore(Proc, storeOk) IN
    /\ SetProc(g)
    /\ last' = [NoOp EXCEPT !.op = "list_documents",
                   !.http = IF g.ok THEN 200 ELSE 500,
                   !.queried = g.ok,
                   !.sources = IF g.ok THEN {Basename(c.src) : c \in sc} ELSE {}]
    /\ UNCHANGED <<reg, rag, members, disk, index, idxGen, idxHybrid>>

\* DELETE /ai/index/clear
ClearIndex ==
    \E storeOk \in BOOLEAN :
    LET g == GetVectorStore(Proc, storeOk) IN
    /\ SetProc(g)
    /\ index' = IF g.ok THEN {} ELSE index
    /\ disk' = IF g.ok THEN {} ELSE disk
    /\ last' = [NoOp EXCEPT !.op = "clear_index",
                   !.http = IF g.ok THEN 200 ELSE 500]
    /\ UNCHANGED <<reg, rag, members, idxGen, idxHybrid>>

\* what recreate_index leaves in the process-level caches: the statement
\* "_vector_store_cache = None" (ai.py:343-344) binds a name local to the
\* handler, the globals of rag_service keep their values
CachesAfterRecreate(pr) == pr

\* POST /ai/index/recreate
RecreateIndex ==
    /\ idxGen < MaxRecreate
    /\ idxGen' = idxGen + 1
    /\ index' = {}
    /\ idxHybrid' = TRUE
    /\ SetProc([pr |-> CachesAfterRecreate(Proc)])
    /\ last' = [NoOp EXCEPT !.op = "recreate_index"]
    /\ UNCHANGED <<reg, rag, members, disk>>

(* ------------------------------- asking -------------------------------- *)
\* the hybrid retriever encodes every query with the sparse encoder it was
\* built with (rag_service.py:376-388), fitted or not
RetrieverEncodesQuery(qa) == qa.hybrid

\* QuestionRequest.top_k: a value the caller gives, or the default
RequestTopK == {1, TOP_K}

\* number of documents the retriever of get_vector_store returns
\* (top_k=TOP_K / search_kwargs={"k": TOP_K}, rag_service.py:385-399)
RetrievedCount(idx) == Min(TOP_K, Cardinality(idx))

\* len(reranked_docs): the reranker returns some of the documents it was
\* given; when it raises or has nothing to rerank the retrieved ones stay
RerankedCounts(n) == IF n = 0 THEN {0} ELSE 1..n

\* RAGService.ask_question
\*   qOk: the retrieval query succeeds; llmOk: the LLM answers
\*   k: top_k of the request; total: len(reranked_docs)
AskQuestion ==
    \E storeOk \in BOOLEAN, qOk \in BOOLEAN, llmOk \in BOOLEAN,
       k \in RequestTopK, total \in RerankedCounts(RetrievedCount(index)) :
    \E shown \in SubsetsOfSize(index, Min(SOURCES_SHOWN, total)) :
    /\ (~storeOk \/ ~qOk \/ ~llmOk) => (storeOk /\ qOk) \/ (storeOk /\ llmOk) \/ (qOk /\ llmOk)
    /\ (~storeOk \/ ~qOk \/ ~llmOk) => total = RetrievedCount(index)
    /\ LET g == GetQaChain(Proc, storeOk)
           base == [NoOp EXCEPT !.op = "ask"]
           encodes == g.ok /\ RetrieverEncodesQuery(g.pr.qa)
           unfitted == encodes /\ g.pr.enc # "fitted"
           retrieved == g.ok /\ ~unfitted /\ qOk
           answered == retrieved /\ llmOk
       IN
       /\ SetProc(g)
       /\ last' = [base EXCEPT
             !.http = IF answered THEN 200 ELSE 500,
             !.msg = IF answered THEN "answer" ELSE "error",
             !.encUnfitted = unfitted,
             !.sparse = encodes /\ ~unfitted,
             !.queried = g.ok /\ ~unfitted,
             !.llm = retrieved,
             !.staleHandle = g.ok /\ g.pr.qa.gen # idxGen,
             !.sources = IF answered THEN {Basename(c.src) : c \in shown} ELSE {},
             !.top_k = k,
             !.total = IF answered THEN total ELSE 0,
             \* qa_chain.invoke retrieves and calls the LLM; the documents
             \* of its result are reranked afterwards (rag_service.py:1090-1118)
             !.steps = (IF g.ok /\ ~unfitted THEN <<"retrieve">> ELSE <<>>)
                       \o (IF retrieved THEN <<"llm">> ELSE <<>>)
                       \o (IF answered /\ index # {} THEN <<"rerank">> ELSE <<>>)]
       /\ UNCHANGED <<reg, rag, members, disk, index, idxGen, idxHybrid>>

\* the metadata filter {"$or": [{"source": {"$eq": "data/input/<fn>"}}]}
FilterMatches(files, src) == \E fn \in files : src = JoinInput(fn)

\* keys of the response metadata when no match was found
\* (rag_service.py:1238-1250)
NO_MATCH_METADATA ==
    {"total_sources", "model_used", "session_scoped", "session_files_searched",
     "research_paper_aware"}

\* keys of the response metadata of an answer (rag_service.py:1359-1374)
SCOPED_METADATA ==
    {"total_sources", "model_used", "reranked", "sections_referenced",
     "citations_found", "papers_referenced", "session_scoped",
     "session_files_searched", "research_paper_aware"}

\* RAGService.ask_question_session_scoped
\*   fq: the filtered query succeeds; fbq: the query without filter succeeds
\*   pick: the documents that come first after reranking
AskScoped(pr, idx, files, storeOk, fq, fbq, llmOk, pick) ==
    LET g == GetQaChain(pr, storeOk)
        r == [http |-> 200, msg |-> "", sources |-> {}, llm |-> FALSE,
              queried |-> FALSE, fallback |-> FALSE, pr |-> g.pr,
              staleHandle |-> FALSE, steps |-> <<>>, meta |-> {}]
        cand == IF fq THEN {c \in idx : FilterMatches(files, c.src)} ELSE idx
        shown == pick \cap cand
    IN  IF ~g.ok THEN [r EXCEPT !.http = 500, !.msg = "error"]
        ELSE IF files = {} THEN [r EXCEPT !.msg = "no_session_files",
                                          !.meta = NO_MATCH_METADATA]
        ELSE IF ~fq /\ ~fbq THEN
            [r EXCEPT !.http = 500, !.msg = "error", !.queried = TRUE,
                      !.staleHandle = g.pr.vs.gen # idxGen,
                      !.steps = <<"retrieve">>]
        ELSE IF cand = {} THEN
            [r EXCEPT !.msg = "no_relevant", !.queried = TRUE, !.fallback = ~fq,
                      !.staleHandle = g.pr.vs.gen # idxGen,
                      !.steps = <<"retrieve">>, !.meta = NO_MATCH_METADATA]
        ELSE [r EXCEPT !.msg = IF llmOk THEN "answer" ELSE "llm_error",
                       !.queried = TRUE, !.llm = TRUE, !.fallback = ~fq,
                       !.staleHandle = g.pr.vs.gen # idxGen,
                       !.sources = {Basename(c.src) : c \in shown},
                       \* rag_service.py:1214-1233, 1265-1283, 1285-1323
                       !.steps = <<"retrieve", "rerank", "llm">>,
                       !.meta = SCOPED_METADATA]

\* the documents shown as sources are at most SOURCES_SHOWN of the matches,
\* in the order the reranker gives them: pick selects them
Picks(idx) == {T \in SUBSET idx : Cardinality(T) <= SOURCES_SHOWN}

\* what the collaborators do during one session-scoped ask
\*   up     the registry answers
\*   store  Pinecone can be initialised
\*   q      "ok": the filtered query succeeds; "fallback": it raises and the
\*          query without filter succeeds; "raises": both raise
\*   llm    the LLM answers
\*   pick   the documents that come first after reranking
\*   empty  nothing is left of the chat message after the trigger
AskInputs(idx) ==
    {in \in [up : BOOLEAN, store : BOOLEAN, q : {"ok", "fallback", "raises"},
             llm : BOOLEAN, pick : Picks(idx), empty : BOOLEAN] :
        /\ (~in.up \/ ~in.store \/ in.empty \/ in.q = "raises") => in.llm /\ in.pick = {}
        /\ (~in.up \/ ~in.store \/ in.empty) => in.q = "ok"
        /\ (~in.up => in.store /\ ~in.empty)
        /\ (in.pick = {} => in.llm)}

\* the session check that lets every session through
RagEnabledAlways(status) == TRUE

\* the session check of both ask entry points (session_rag.py:503, chat.py:53)
RagEnabled(status) == status.known /\ status.is_rag_enabled

\* papers of the session whose rag_status is completed
ProcessedPapers(s, up) == {p \in SessionPapers(s, up) : reg[p].status = "completed"}

\* rag_file_name of the processed papers (session_rag.py:520)
SessionFiles(s, up) ==
    {reg[p].file_name : p \in {q \in ProcessedPapers(s, up) : reg[q].file_name # <<>>}}

\* keys ask_session_rag_question adds to the response metadata
\* (session_rag.py:539-546)
SESSION_ASK_METADATA ==
    {"session_id", "session_papers_used", "total_session_papers",
     "processing_time_ms", "used_rag"}

\* keys of the metadata of the chat response (chat.py:123-135)
CHAT_METADATA ==
    {"used_rag", "sources_used", "chunks_retrieved", "processing_time_ms",
     "session_papers_count"}

\* POST /session-rag/{s}/ask
AskSessionRag(s) ==
    \E in \in AskInputs(index) :
    /\ ~in.empty
    /\ LET up == in.up
           base == [NoOp EXCEPT !.op = "ask_scoped", !.paper = s]
           a == AskScoped(Proc, index, SessionFiles(s, up), in.store, in.q = "ok",
                          in.q = "fallback", in.llm, in.pick)
       IN
       IF ~RagEnabled(GetSessionRagStatus(s, up)) THEN
           /\ last' = [base EXCEPT !.http = 400, !.msg = "not_enabled"]
           /\ UNCHANGED <<reg, rag, members, disk, index, idxGen, idxHybrid,
                          embCache, bm25, vsCache, qaCache>>
       ELSE IF ProcessedPapers(s, up) = {} THEN
           /\ last' = [base EXCEPT !.http = 400, !.msg = "no_papers"]
           /\ UNCHANGED <<reg, rag, members, disk, index, idxGen, idxHybrid,
                          embCache, bm25, vsCache, qaCache>>
       ELSE
           /\ SetProc(a)
           /\ last' = [base EXCEPT !.http = a.http, !.msg = a.msg,
                          !.sources = a.sources, !.llm = a.llm,
                          !.queried = a.queried, !.fallback = a.fallback,
                          !.staleHandle = a.staleHandle, !.steps = a.steps,
                       !.meta = IF a.http = 200 THEN a.meta \cup SESSION_ASK_METADATA
                                  ELSE {}]
           /\ UNCHANGED <<reg, rag, members, disk, index, idxGen, idxHybrid>>

\* POST /chat/paper-message (@paper), for a process whose AI service is
\* configured
HandlePaperMessage(s) ==
    \E in \in AskInputs(index) :
    LET up == in.up
        emptyQ == in.empty
        base == [NoOp EXCEPT !.op = "paper_message", !.paper = s]
        a == AskScoped(Proc, index, SessionFiles(s, up), in.store, in.q = "ok",
                       in.q = "fallback", in.llm, in.pick)
    IN
    IF ~RagEnabled(GetSessionRagStatus(s, up)) THEN
        /\ last' = [base EXCEPT !.msg = "not_enabled"]
        /\ UNCHANGED <<reg, rag, members, disk, index, idxGen, idxHybrid,
                       embCache, bm25, vsCache, qaCache>>
    ELSE IF ProcessedPapers(s, up) = {} THEN
        /\ last' = [base EXCEPT !.msg = "no_papers"]
        /\ UNCHANGED <<reg, rag, members, disk, index, idxGen, idxHybrid,
                       embCache, bm25, vsCache, qaCache>>
    ELSE IF emptyQ THEN
        /\ last' = [base EXCEPT !.msg = "empty_question"]
        /\ UNCHANGED <<reg, rag, members, disk, index, idxGen, idxHybrid,
                       embCache, bm25, vsCache, qaCache>>
    ELSE
        /\ SetProc(a)
        /\ last' = [base EXCEPT !.msg = a.msg,
                       !.sources = a.sources, !.llm = a.llm,
                       !.queried = a.queried, !.fallback = a.fallback,
                       !.staleHandle = a.staleHandle, !.steps = a.steps,
                       !.meta = IF a.http = 200 THEN CHAT_METADATA ELSE {}]
        /\ UNCHANGED <<reg, rag, members, disk, index, idxGen, idxHybrid>>

(* ------------------------- session RAG state --------------------------- *)
\* POST /session-rag/{s}/enable
EnableSessionRag(s, u) ==
    \E up \in BOOLEAN :
    /\ rag' = IF up THEN [rag EXCEPT ![s] = [known |-> TRUE, is_rag_enabled |-> TRUE,
                                             enabled_by |-> u]]
              ELSE rag
    /\ last' = [NoOp EXCEPT !.op = "enable", !.paper = s, !.by = u,
                   !.http = IF up THEN 200 ELSE 500]
    /\ UNCHANGED <<reg, members, disk, index, idxGen, idxHybrid,
                   embCache, bm25, vsCache, qaCache>>

\* POST /session-rag/{s}/disable
DisableSessionRag(s) ==
    \E up \in BOOLEAN :
    LET found == up /\ rag[s].known IN
    /\ rag' = IF found THEN [rag EXCEPT ![s].is_rag_enabled = FALSE] ELSE rag
    /\ last' = [NoOp EXCEPT !.op = "disable", !.paper = s,
                   !.http = IF found THEN 200 ELSE 404]
    /\ UNCHANGED <<reg, members, disk, index, idxGen, idxHybrid,
                   embCache, bm25, vsCache, qaCache>>

\* a paper is linked to a session (done by the Express service)
LinkPaper(s, p) ==
    /\ p \notin members[s]
    /\ members' = [members EXCEPT ![s] = @ \cup {p}]
    /\ last' = [NoOp EXCEPT !.op = "link", !.paper = p]
    /\ UNCHANGED <<reg, rag, disk, index, idxGen, idxHybrid,
                   embCache, bm25, vsCache, qaCache>>

Next ==
    \/ \E s \in Sessions, p \in Papers, t \in Titles : AutoProcess(s, p, t)
    \/ \E s \in Sessions, p \in Papers : ProcessPaper(s, p)
    \/ \E s \in Sessions, p \in Papers : UploadPaperToSession(s, p)
    \/ \E s \in Sessions, p \in Papers : RemovePaperFromSession(s, p)
    \/ \E s \in Sessions, p \in Papers : LinkPaper(s, p)
    \/ \E f \in UploadNames : UploadGlobal(f)
    \/ \E f \in DocumentNames : RemoveDocument(f)
    \/ ListDocuments
    \/ ClearIndex
    \/ RecreateIndex
    \/ AskQuestion
    \/ \E s \in Sessions : AskSessionRag(s)
    \/ \E s \in Sessions : HandlePaperMessage(s)
    \/ \E s \in Sessions, u \in Users : EnableSessionRag(s, u)
    \/ \E s \in Sessions : DisableSessionRag(s)

Spec == Init /\ [][Next]_vars

\* the ingestion handlers of the session coordinator alone
NextIngest ==
    \/ \E s \in Sessions, p \in Papers, t \in Titles : AutoProcess(s, p, t)
    \/ \E s \in Sessions, p \in Papers : ProcessPaper(s, p)
    \/ \E s \in Sessions, p \in Papers : UploadPaperToSession(s, p)
    \/ \E s \in Sessions, p \in Papers : RemovePaperFromSession(s, p)

SpecIngest == Init /\ [][NextIngest]_vars

\* session state, ingestion and the two session-scoped ask entry points
NextAsk ==
    \/ \E s \in Sessions, p \in Papers : AutoProcess(s, p, <<"a", "b">>)
    \/ \E s \in Sessions, p \in Papers : LinkPaper(s, p)
    \/ UploadGlobal(<<"P", ".pdf">>)
    \/ \E s \in Sessions : AskSessionRag(s)
    \/ \E s \in Sessions : HandlePaperMessage(s)
    \/ \E s \in Sessions : EnableSessionRag(s, 7)
    \/ \E s \in Sessions : DisableSessionRag(s)

SpecAsk == Init /\ [][NextAsk]_vars

\* the session switches, used by every user, and the asks they govern
NextSession ==
    \/ \E s \in Sessions, u \in Users : EnableSessionRag(s, u)
    \/ \E s \in Sessions : DisableSessionRag(s)
    \/ \E s \in Sessions, p \in Papers : LinkPaper(s, p)
    \/ \E s \in Sessions : AskSessionRag(s)
    \/ \E s \in Sessions : HandlePaperMessage(s)

SpecSession == Init /\ [][NextSession]_vars

\* the global document endpoints
NextIndex ==
    \/ \E f \in UploadNames : UploadGlobal(f)
    \/ \E f \in DocumentNames : RemoveDocument(f)
    \/ ListDocuments
    \/ ClearIndex

SpecIndex == Init /\ [][NextIndex]_vars

\* ingestion, global ask and index recreation: the process-level caches
NextCache ==
    \/ \E s \in Sessions, p \in Papers : AutoProcess(s, p, <<"a", "b">>)
    \/ AskQuestion
    \/ RecreateIndex

SpecCache == Init /\ [][NextCache]_vars

(* ------------------- rag_backend/rag_module.py -------------------------- *)
\* The standalone service keeps the same four module-level caches; it is a
\* process of its own, modelled on the same cache variables.

\* rag_module.get_vector_store; validate_index_for_hybrid_search answers
\* False for every exception of the probe query: probeOk says that the
\* probe query itself went through
ModuleGetVectorStore(pr, storeOk, probeOk) ==
    IF pr.vs.set THEN [ok |-> TRUE, pr |-> pr]
    ELSE IF ~storeOk THEN [ok |-> FALSE, pr |-> [pr EXCEPT !.emb = TRUE]]
    ELSE LET enc == IF pr.enc = "none" THEN "unfitted" ELSE pr.enc
         IN  [ok |-> TRUE,
              pr |-> [pr EXCEPT !.emb = TRUE, !.enc = enc,
                        !.vs = [set |-> TRUE,
                                hybrid |-> ValidateIndexForHybridSearch(idxHybrid /\ probeOk),
                                gen |-> idxGen]]]

\* rag_module.get_qa_chain
ModuleGetQaChain(pr, storeOk, probeOk) ==
    IF pr.qa.set THEN [ok |-> TRUE, pr |-> pr]
    ELSE LET g == ModuleGetVectorStore(pr, storeOk, probeOk)
         IN  IF ~g.ok THEN g
             ELSE [ok |-> TRUE,
                   pr |-> [g.pr EXCEPT !.qa = [set |-> TRUE,
                                               hybrid |-> g.pr.vs.hybrid,
                                               gen |-> g.pr.vs.gen]]]

\* rag_module.ensure_bm25_fitted: fits the encoder with texts read back from
\* the index; every exception after get_vector_store is swallowed
\*   fitOk: reading the index and BM25Encoder.fit succeed
EnsureBm25Fitted(pr, idx, storeOk, probeOk, fitOk) ==
    LET g == ModuleGetVectorStore(pr, storeOk, probeOk) IN
    IF ~g.ok THEN [raised |-> TRUE, pr |-> g.pr, tried |-> FALSE]
    ELSE IF ~g.pr.vs.hybrid \/ g.pr.enc = "fitted" THEN
        [raised |-> FALSE, pr |-> g.pr, tried |-> FALSE]
    ELSE IF idx = {} THEN [raised |-> FALSE, pr |-> g.pr, tried |-> FALSE]
    ELSE [raised |-> FALSE, tried |-> TRUE,
          pr |-> IF fitOk THEN [g.pr EXCEPT !.enc = "fitted"] ELSE g.pr]

\* rag_module.upsert_documents_to_index: the encoder is first fitted from
\* the index (ensure_bm25_fitted), then, if still unfitted, from the chunks
\* at hand; the batches are upserted as in RAGService
ModuleUpsertDocumentsToIndex(pr, idx, src, n, in, probeOk, fitIdx) ==
    IF n = 0 THEN UpsertDocumentsToIndex(pr, idx, src, n, in)
    ELSE
    LET g == ModuleGetVectorStore(pr, in.store, probeOk) IN
    IF ~g.ok THEN UpsertDocumentsToIndex(pr, idx, src, n, in)
    ELSE LET e == EnsureBm25Fitted(g.pr, idx, TRUE, probeOk, fitIdx)
         IN  UpsertDocumentsToIndex(e.pr, idx, src, n, in)

\* what the collaborators do during one upload of the standalone service
ModuleUploadInputs ==
    {m \in [up : UploadInputs, probe : BOOLEAN, fitIdx : BOOLEAN] :
        /\ (~m.up.load \/ m.up.n = 0 \/ ~m.up.store) => (m.probe /\ m.fitIdx)
        /\ (vsCache.set => m.probe)
        /\ (index = {} \/ bm25 = "fitted") => m.fitIdx}

\* POST /documents/upload of rag_module
ModuleUploadDocument(f) ==
    \E m \in ModuleUploadInputs :
    LET in == m.up
        u == ModuleUpsertDocumentsToIndex(Proc, index, JoinInput(f), in.n, in,
                                          m.probe, m.fitIdx)
        loaded == in.load
        upserting == loaded /\ in.n > 0
    IN
    /\ Cardinality(u.index) <= MaxIndex
    /\ disk' = disk \cup {f}
    /\ index' = IF upserting THEN u.index ELSE index
    /\ SetProc(IF upserting THEN u ELSE [pr |-> Proc])
    /\ last' = [NoOp EXCEPT !.op = "module_upload", !.arg = f,
                   !.http = IF loaded THEN 200 ELSE 500,
                   !.sparse = upserting /\ u.sparse,
                   !.fitRaised = upserting /\ u.fitRaised,
                   !.encUnfitted = upserting /\ u.encUnfitted,
                   !.staleHandle = upserting /\ u.stale]
    /\ UNCHANGED <<reg, rag, members, idxGen, idxHybrid>>

\* POST /qa/ask of rag_module: ensure_bm25_fitted, then both the vector
\* store cache and the chain cache are dropped and built again
ModuleAskQuestion ==
    \E storeOk \in BOOLEAN, probeOk \in BOOLEAN, fitOk \in BOOLEAN,
       qOk \in BOOLEAN, llmOk \in BOOLEAN :
    /\ (~storeOk) => (probeOk /\ fitOk /\ qOk /\ llmOk)
    /\ (~qOk) => llmOk
    /\ LET e == EnsureBm25Fitted(Proc, index, storeOk, probeOk, fitOk)
           dropped == [e.pr EXCEPT !.vs = NoCache, !.qa = NoCache]
           g == IF e.raised THEN [ok |-> FALSE, pr |-> e.pr]
                ELSE ModuleGetQaChain(dropped, storeOk, probeOk)
           encodes == g.ok /\ RetrieverEncodesQuery(g.pr.qa)
           unfitted == encodes /\ g.pr.enc # "fitted"
           retrieved == g.ok /\ ~unfitted /\ qOk
           answered == retrieved /\ llmOk
       IN
       /\ SetProc(g)
       /\ last' = [NoOp EXCEPT !.op = "module_ask",
             !.http = IF answered THEN 200 ELSE 500,
             !.msg = IF answered THEN "answer" ELSE "error",
             !.encUnfitted = unfitted,
             !.sparse = encodes /\ ~unfitted,
             !.queried = g.ok /\ ~unfitted,
             !.llm = retrieved,
             !.staleHandle = g.ok /\ g.pr.qa.gen # idxGen,
             !.steps = (IF g.ok /\ ~unfitted THEN <<"retrieve">> ELSE <<>>)
                       \o (IF retrieved THEN <<"llm">> ELSE <<>>)
                       \o (IF answered /\ index # {} THEN <<"rerank">> ELSE <<>>)]
       /\ UNCHANGED <<reg, rag, members, disk, index, idxGen, idxHybrid>>

\* POST /index/recreate of rag_module: the new index has the dotproduct
\* metric; only _vector_store_cache is reset (rag_module.py:1543-1545)
RecreateIndexWithDotproduct ==
    /\ idxGen < MaxRecreate
    /\ idxGen' = idxGen + 1
    /\ index' = {}
    /\ idxHybrid' = TRUE
    /\ vsCache' = NoCache
    /\ last' = [NoOp EXCEPT !.op = "module_recreate"]
    /\ UNCHANGED <<reg, rag, members, disk, embCache, bm25, qaCache>>

NextModule ==
    \/ \E f \in UploadNames : ModuleUploadDocument(f)
    \/ ModuleAskQuestion
    \/ RecreateIndexWithDotproduct

SpecModule == Init /\ [][NextModule]_vars

(* ------------------- chunking, vector ids and metadata ------------------ *)
\* Python values as they occur in chunk metadata: a type tag t, the
\* rendering s that str(value) gives (a sequence of tokens), and the items
\* of a list
PyVal(t, s, items) == [t |-> t, s |-> s, items |-> items]

PyNone == PyVal("none", <<"None">>, <<>>)

PyStr(s) == PyVal("str", s, <<>>)

PyInt(n) == PyVal("int", <<ToString(n)>>, <<>>)

PyDict(s) == PyVal("dict", s, <<>>)

PyList(items) == PyVal("list", <<"[]">>, items)

\* str(value)
Str(v) == PyStr(v.s)

\* a metadata key
K(name) == PyStr(<<name>>)

\* dict: the key/value pairs in insertion order
HasKey(d, k) == \E i \in 1..Len(d) : d[i].k = k

Get(d, k) == d[CHOOSE i \in 1..Len(d) : d[i].k = k].v

\* d[k] = v
Put(d, k, v) ==
    IF HasKey(d, k)
    THEN [i \in 1..Len(d) |-> IF d[i].k = k THEN [k |-> k, v |-> v] ELSE d[i]]
    ELSE Append(d, [k |-> k, v |-> v])

\* d.update(e)
RECURSIVE Update(_, _)
Update(d, e) ==
    IF e = <<>> THEN d ELSE Update(Put(d, Head(e).k, Head(e).v), Tail(e))

\* [str(item) for item in value if item is not None]
RECURSIVE StringList(_)
StringList(items) ==
    IF items = <<>> THEN <<>>
    ELSE IF Head(items).t = "none" THEN StringList(Tail(items))
    ELSE <<Str(Head(items))>> \o StringList(Tail(items))

\* the loop of clean_metadata_for_pinecone over metadata.items()
RECURSIVE CleanInto(_, _)
CleanInto(m, cleaned) ==
    IF m = <<>> THEN cleaned
    ELSE LET key == Head(m).k
             value == Head(m).v
             rest == Tail(m)
         IN  IF value.t = "none" THEN CleanInto(rest, cleaned)
             ELSE IF value.t \in {"str", "int", "float", "bool"}
                  THEN CleanInto(rest, Put(cleaned, Str(key), value))
             ELSE IF value.t = "list"
                  THEN IF StringList(value.items) # <<>>
                       THEN CleanInto(rest, Put(cleaned, Str(key),
                                                PyList(StringList(value.items))))
                       ELSE CleanInto(rest, cleaned)
             ELSE CleanInto(rest, Put(cleaned, Str(key), Str(value)))

\* a cleaning that renders every value with repr()
CleanMetadataByRepr(metadata) ==
    [i \in 1..Len(metadata) |->
        [k |-> Str(metadata[i].k),
         v |-> PyStr(<<"'">> \o metadata[i].v.s \o <<"'">>)]]

\* RAGService.clean_metadata_for_pinecone
CleanMetadataForPinecone(metadata) == CleanInto(metadata, <<>>)

\* lines of page text: body lines, section headings (SECTION_PATTERNS) and
\* figure/table captions (FIGURE_TABLE_PATTERNS)
Headings == {"Abstract", "Methods"}

FigureCaptions == {"Figure 1. c"}

TableCaptions == {"Table 1: c"}

LineAlphabet == {"b"} \cup Headings \cup FigureCaptions \cup TableCaptions

\* detect_paper_sections: name and 0-based line number of every heading
RECURSIVE DetectFrom(_, _)
DetectFrom(lines, i) ==
    IF i > Len(lines) THEN <<>>
    ELSE (IF lines[i] \in Headings
          THEN <<[name |-> lines[i], line_number |-> i - 1]>> ELSE <<>>)
         \o DetectFrom(lines, i + 1)

DetectPaperSections(lines) == DetectFrom(lines, 1)

\* the match of one caption pattern on a caption line
CaptionOf(line) ==
    IF line \in FigureCaptions
    THEN [type |-> "figure", label |-> "Figure 1.", caption |-> "c"]
    ELSE [type |-> "table", label |-> "Table 1:", caption |-> "c"]

RECURSIVE CaptionsIn(_, _)
CaptionsIn(lines, pattern) ==
    IF lines = <<>> THEN <<>>
    ELSE (IF Head(lines) \in pattern THEN <<CaptionOf(Head(lines))>> ELSE <<>>)
         \o CaptionsIn(Tail(lines), pattern)

\* extract_figures_tables: the matches of the Figure pattern, then those
\* of the Table pattern
ExtractFiguresTables(lines) ==
    CaptionsIn(lines, FigureCaptions) \o CaptionsIn(lines, TableCaptions)

\* extract_paper_metadata for a text without title line, year and venue
ExtractPaperMetadata(source) ==
    <<[k |-> K("paper_id"),
       v |-> PyStr(SelectSeq(Basename(source), LAMBDA c : c # ".pdf"))],
      [k |-> K("title"), v |-> PyStr(<<>>)],
      [k |-> K("authors"), v |-> PyList(<<>>)],
      [k |-> K("year"), v |-> PyNone],
      [k |-> K("venue"), v |-> PyStr(<<>>)]>>

\* RecursiveCharacterTextSplitter over n lines: the half-open line ranges
\* of the pieces, each of at most `size` lines, overlapping by `overlap`
SplitText(n, size, overlap) ==
    IF n = 0 THEN <<>>
    ELSE IF n <= size THEN <<[first |-> 0, last |-> n]>>
    ELSE LET step == size - overlap
             cnt == ((n - overlap) + step - 1) \div step
         IN  [j \in 1..cnt |-> [first |-> (j - 1) * step,
                                last |-> Min((j - 1) * step + size, n)]]

\* update_chunk_metadata
UpdateChunkMetadata(metadata, section_name, figures_tables, chunk_type, paper_metadata) ==
    Update(Update(metadata,
             <<[k |-> K("section"), v |-> PyStr(section_name)],
               [k |-> K("subsection"), v |-> PyStr(<<>>)],
               [k |-> K("citations"), v |-> PyList(<<>>)],
               [k |-> K("figures_tables"),
                v |-> PyList([i \in 1..Len(figures_tables) |->
                         PyDict(<<figures_tables[i].type, figures_tables[i].label,
                                  figures_tables[i].caption>>)])],
               [k |-> K("chunk_type"), v |-> PyStr(<<chunk_type>>)]>>),
           paper_metadata)

\* a section that runs to the end of the page
SectionEndOfPage(sections, i, n) == n

\* end_line: the line of the next heading, or the number of lines
SectionEnd(sections, i, n) ==
    IF i + 1 <= Len(sections) THEN sections[i + 1].line_number ELSE n

\* the chunks of one detected section; first/last record the lines of the
\* page the text was cut from
SectionChunks(doc, sections, i, figures_tables, paper_metadata) ==
    LET start_line == sections[i].line_number
        end_line == SectionEnd(sections, i, Len(doc.lines))
        section_name == sections[i].name
        pieces == IF end_line - start_line > SECTION_SPLIT_THRESHOLD
                  THEN SplitText(end_line - start_line, SECTION_SPLIT_SIZE,
                                 SECTION_SPLIT_OVERLAP)
                  ELSE <<[first |-> 0, last |-> end_line - start_line]>>
    IN  [j \in 1..Len(pieces) |->
           [page_content |-> <<"[Section: ", section_name, "]">>
                             \o SubSeq(doc.lines, start_line + pieces[j].first + 1,
                                       start_line + pieces[j].last),
            metadata |-> UpdateChunkMetadata(doc.metadata, <<section_name>>,
                             figures_tables, "section_content", paper_metadata),
            first |-> start_line + pieces[j].first,
            last |-> start_line + pieces[j].last]]

RECURSIVE AllSectionChunks(_, _, _, _, _)
AllSectionChunks(doc, sections, i, figures_tables, paper_metadata) ==
    IF i > Len(sections) THEN <<>>
    ELSE SectionChunks(doc, sections, i, figures_tables, paper_metadata)
         \o AllSectionChunks(doc, sections, i + 1, figures_tables, paper_metadata)

\* .title() of the caption type
TitleCase(type) == IF type = "figure" THEN "Figure" ELSE "Table"

\* the body of the loop of hierarchical_chunk_documents for one page: a
\* page without section heading is split by length and the loop goes on
\* with the next page (`continue`), before the caption chunks are made
ChunkPage(doc, paper_metadata) ==
    LET sections == DetectPaperSections(doc.lines)
        figures_tables == ExtractFiguresTables(doc.lines)
    IN  IF sections = <<>>
        THEN LET pieces == SplitText(Len(doc.lines), CHUNK_SIZE, CHUNK_OVERLAP)
             IN  [j \in 1..Len(pieces) |->
                    [page_content |-> SubSeq(doc.lines, pieces[j].first + 1,
                                             pieces[j].last),
                     metadata |-> UpdateChunkMetadata(doc.metadata, <<>>,
                                      figures_tables, "content", paper_metadata),
                     first |-> pieces[j].first,
                     last |-> pieces[j].last]]
        ELSE AllSectionChunks(doc, sections, 1, figures_tables, paper_metadata)
             \o [j \in 1..Len(figures_tables) |->
                   [page_content |-> <<"[", TitleCase(figures_tables[j].type), ": ",
                                       figures_tables[j].label, "] ",
                                       figures_tables[j].caption>>,
                    metadata |-> Put(UpdateChunkMetadata(doc.metadata,
                                         <<"Figures/Tables">>, figures_tables,
                                         figures_tables[j].type, paper_metadata),
                                     K("figure_label"),
                                     PyStr(<<figures_tables[j].label>>)),
                    first |-> 0,
                    last |-> 0]]

\* RAGService.hierarchical_chunk_documents
RECURSIVE HierarchicalChunkDocuments(_, _)
HierarchicalChunkDocuments(documents, paper_metadata) ==
    IF documents = <<>> THEN <<>>
    ELSE ChunkPage(Head(documents), paper_metadata)
         \o HierarchicalChunkDocuments(Tail(documents), paper_metadata)

\* an id that leaves out the position of the chunk
ChunkIdOfPage(chunk, i) ==
    Basename(Get(chunk.metadata, K("source")).s)
        \o <<"_page_">> \o Get(chunk.metadata, K("page")).s

\* f"{os.path.basename(source)}_page_{page}_chunk_{i+j}"
ChunkId(chunk, i) ==
    Basename(Get(chunk.metadata, K("source")).s)
        \o <<"_page_">> \o Get(chunk.metadata, K("page")).s
        \o <<"_chunk_", ToString(i)>>

\* the vectors upsert_documents_to_index builds for the chunks: id and
\* cleaned metadata carrying the text (the batches only group them)
BuildVectors(chunks) ==
    [j \in 1..Len(chunks) |->
        [id |-> ChunkId(chunks[j], j - 1),
         metadata |-> CleanMetadataForPinecone(
                          Put(Put(chunks[j].metadata,
                                  K("text_content"), PyStr(chunks[j].page_content)),
                              K("text"), PyStr(chunks[j].page_content)))]]

\* index.upsert: a vector replaces the stored vector of the same id
RECURSIVE PineconeUpsert(_, _)
PineconeUpsert(idx, vectors) ==
    IF vectors = <<>> THEN idx
    ELSE PineconeUpsert({v \in idx : v.id # Head(vectors).id} \cup {Head(vectors)},
                        Tail(vectors))

\* PyPDFLoader: one document per page with source and page number; then
\* page.metadata.update(paper_metadata) in upload_document
LoadPages(source, texts) ==
    [n \in 1..Len(texts) |->
        [lines |-> texts[n],
         metadata |-> Update(<<[k |-> K("source"), v |-> PyStr(source)],
                               [k |-> K("page"), v |-> PyInt(n - 1)]>>,
                             ExtractPaperMetadata(source))]]

\* page texts of at most n lines
TextsUpTo(n) == UNION {[1..m -> LineAlphabet] : m \in 0..n}

\* PDFs of one or two pages with at most MaxLines lines altogether
PdfTexts ==
    {<<t>> : t \in TextsUpTo(MaxLines)}
    \cup {<<SubSeq(tk[1], 1, tk[2]), SubSeq(tk[1], tk[2] + 1, Len(tk[1]))>> :
            tk \in {x \in TextsUpTo(MaxLines) \X (0..MaxLines) : x[2] <= Len(x[1])}}

\* what an earlier upload of a three-line PDF left in the index
EarlierIndexes ==
    {{}} \cup
    {PineconeUpsert({}, BuildVectors(HierarchicalChunkDocuments(
                            LoadPages(JoinInput(f), <<(<<"b", "b", "b">>)>>),
                            ExtractPaperMetadata(JoinInput(f))))) :
        f \in UploadNames}

\* upload_document has loaded the pages of P.pdf
InitChunks ==
    /\ reg = [p \in Papers |-> NoDoc]
    /\ rag = [s \in Sessions |-> NoRag]
    /\ members = [s \in Sessions |-> {}]
    /\ disk = {<<"P", ".pdf">>}
    /\ index \in EarlierIndexes
    /\ idxGen = 0
    /\ idxHybrid = TRUE
    /\ embCache = FALSE
    /\ bm25 = "none"
    /\ vsCache = NoCache
    /\ qaCache = NoCache
    /\ last \in {[op |-> "loaded",
                  pages |-> LoadPages(JoinInput(<<"P", ".pdf">>), texts),
                  chunks |-> <<>>] : texts \in PdfTexts}

\* upload_document: the pages are chunked (rag_service.py:932)
ChunkDocuments ==
    /\ last.op = "loaded"
    /\ last' = [last EXCEPT !.op = "chunked",
                   !.chunks = HierarchicalChunkDocuments(last.pages,
                                  ExtractPaperMetadata(JoinInput(<<"P", ".pdf">>)))]
    /\ UNCHANGED <<reg, rag, members, disk, index, idxGen, idxHybrid,
                   embCache, bm25, vsCache, qaCache>>

\* upload_document: the chunks are upserted
UpsertChunks ==
    /\ last.op = "chunked"
    /\ last.chunks # <<>>
    /\ index' = PineconeUpsert(index, BuildVectors(last.chunks))
    /\ last' = [last EXCEPT !.op = "upserted"]
    /\ UNCHANGED <<reg, rag, members, disk, idxGen, idxHybrid,
                   embCache, bm25, vsCache, qaCache>>

NextChunks == ChunkDocuments \/ UpsertChunks

SpecChunks == InitChunks /\ [][NextChunks]_vars

(* ------------------- metadata cleaning on its own ----------------------- *)
\* values a metadata dictionary may hold
MetadataValues ==
    {PyNone, PyStr(<<"a">>), PyStr(<<"1">>), PyInt(1),
     PyVal("float", <<"0.5">>, <<>>), PyVal("bool", <<"True">>, <<>>),
     PyDict(<<"{}">>), PyVal("object", <<"obj">>, <<>>),
     PyList(<<>>), PyList(<<PyNone>>),
     PyList(<<PyInt(1), PyNone, PyStr(<<"a">>)>>),
     PyList(<<PyDict(<<"{}">>)>>)}

\* its keys; the keys 1 and "1" are different keys with the same str()
MetadataKeys == {PyStr(<<"a">>), PyStr(<<"1">>), PyInt(1)}

\* dictionaries of at most MaxKeys entries
Metadatas ==
    UNION {{m \in [1..n -> [k : MetadataKeys, v : MetadataValues]] :
               \A i, j \in 1..n : i # j => m[i].k # m[j].k} : n \in 0..MaxKeys}

InitMetadata ==
    /\ reg = [p \in Papers |-> NoDoc]
    /\ rag = [s \in Sessions |-> NoRag]
    /\ members = [s \in Sessions |-> {}]
    /\ disk = {}
    /\ index = {}
    /\ idxGen = 0
    /\ idxHybrid = TRUE
    /\ embCache = FALSE
    /\ bm25 = "none"
    /\ vsCache = NoCache
    /\ qaCache = NoCache
    /\ last \in {[op |-> "metadata", metadata |-> m, once |-> <<>>, twice |-> <<>>] :
                    m \in Metadatas}

\* clean_metadata_for_pinecone(metadata)
CleanOnce ==
    /\ last.op = "metadata"
    /\ last' = [last EXCEPT !.op = "cleaned",
                            !.once = CleanMetadataForPinecone(last.metadata)]
    /\ UNCHANGED <<reg, rag, members, disk, index, idxGen, idxHybrid,
                   embCache, bm25, vsCache, qaCache>>

\* clean_metadata_for_pinecone applied to its own result
CleanAgain ==
    /\ last.op = "cleaned"
    /\ last' = [last EXCEPT !.op = "cleaned_again",
                            !.twice = CleanMetadataForPinecone(last.once)]
    /\ UNCHANGED <<reg, rag, members, disk, index, idxGen, idxHybrid,
                   embCache, bm25, vsCache, qaCache>>

NextMetadata == CleanOnce \/ CleanAgain

SpecMetadata == InitMetadata /\ [][NextMetadata]_vars

(* ------------------- the download of auto-process ----------------------- *)
\* URLs as token sequences
ARXIV_ABS == <<"https://arxiv.org", "/abs/", "1234.5678">>

PdfUrls ==
    {ARXIV_ABS,
     <<"https://arxiv.org", "/pdf/", "1234.5678">>,
     <<"https://arxiv.org", "/pdf/", "1234.5678", ".pdf">>,
     <<"https://x.org", "/abs/", "1", "/abs/", "2">>}

\* titles with spaces and with characters the file name may not keep
FormTitles ==
    {<<"a">>, <<"a", " ", "b">>, <<"a", "!", "b">>, <<"a", " ">>,
     <<" ", "a">>, <<"a", "/", " ", "b">>}

\* pdf_url.endswith('.pdf')
EndsWithPdf(url) == url # <<>> /\ url[Len(url)] = ".pdf"

\* a second request at the same URL with '.pdf' appended
RetryUrlAppendOnly(url) == url \o <<".pdf">>

\* pdf_url.replace('/abs/', '/pdf/') + '.pdf'
RetryUrl(url) ==
    [i \in 1..Len(url) |-> IF url[i] = "/abs/" THEN "/pdf/" ELSE url[i]] \o <<".pdf">>

\* a response of requests.get: ok is FALSE when the request or
\* raise_for_status raises; pdf says whether the content type holds
\* application/pdf
Responses == {r \in [ok : BOOLEAN, pdf : BOOLEAN] : ~r.ok => ~r.pdf}

\* the download of auto_process_paper_for_rag (session_rag.py:76-87): the
\* URLs requested and whether content was obtained
DownloadPdf(url, first, second) ==
    IF ~first.ok THEN [ok |-> FALSE, requested |-> <<url>>]
    ELSE IF ~first.pdf /\ ~EndsWithPdf(url)
         THEN [ok |-> second.ok, requested |-> <<url, RetryUrl(url)>>]
    ELSE [ok |-> TRUE, requested |-> <<url>>]

InitDownload ==
    /\ reg = [p \in Papers |-> NoDoc]
    /\ rag = [s \in Sessions |-> NoRag]
    /\ members = [s \in Sessions |-> {}]
    /\ disk = {}
    /\ index = {}
    /\ idxGen = 0
    /\ idxHybrid = TRUE
    /\ embCache = FALSE
    /\ bm25 = "none"
    /\ vsCache = NoCache
    /\ qaCache = NoCache
    /\ last \in {[op |-> "auto_request", paper |-> p, pdf_url |-> u, title |-> t,
                  first |-> r1, second |-> r2, requested |-> <<>>] :
                    p \in Papers, u \in PdfUrls, t \in FormTitles,
                    r1 \in Responses, r2 \in Responses}

\* auto_process_paper_for_rag: the PDF is requested
Download ==
    /\ last.op = "auto_request"
    /\ LET d == DownloadPdf(last.pdf_url, last.first, last.second)
       IN  last' = [last EXCEPT !.op = IF d.ok THEN "downloaded" ELSE "download_failed",
                                !.requested = d.requested]
    /\ UNCHANGED <<reg, rag, members, disk, index, idxGen, idxHybrid,
                   embCache, bm25, vsCache, qaCache>>

\* auto_process_paper_for_rag: the content is written to the input folder
\* (session_rag.py:111-121)
SaveDownloaded ==
    /\ last.op = "downloaded"
    /\ disk' = disk \cup {AutoFileName(last.paper, last.title)}
    /\ last' = [last EXCEPT !.op = "saved"]
    /\ UNCHANGED <<reg, rag, members, index, idxGen, idxHybrid,
                   embCache, bm25, vsCache, qaCache>>

\* auto_process_paper_for_rag: the registry entry is created; the file is
\* removed again when the registry does not answer (session_rag.py:123-142)
RegisterDownloaded ==
    /\ last.op = "saved"
    /\ \E up \in BOOLEAN :
         LET r1 == CreateOrReset(reg, GetRagDocument(reg, last.paper, up), last.paper,
                                 AutoFileName(last.paper, last.title), up)
             created == up /\ r1[last.paper].status # "none"
         IN  /\ reg' = r1
             /\ disk' = IF created THEN disk
                        ELSE disk \ {AutoFileName(last.paper, last.title)}
             /\ last' = [last EXCEPT !.op = IF created THEN "registered"
                                            ELSE "no_rag_document"]
    /\ UNCHANGED <<rag, members, index, idxGen, idxHybrid,
                   embCache, bm25, vsCache, qaCache>>

NextDownload == Download \/ SaveDownloaded \/ RegisterDownloaded

SpecDownload == InitDownload /\ [][NextDownload]_vars

(* ------------------- one ingestion, batch by batch ---------------------- *)
\* chunk lists of at most MaxBatch chunks of the saved file: each chunk
\* carries its source and its page, pages in reading order
BatchChunkLists(file_name) ==
    {[j \in 1..m |->
        [metadata |-> <<[k |-> K("source"), v |-> PyStr(JoinInput(file_name))],
                        [k |-> K("page"), v |-> PyInt(IF j <= c THEN 0 ELSE 1)]>>]] :
        m \in 0..MaxBatch, c \in 0..MaxBatch}

\* range(0, len(chunks), BATCH_SIZE)
BatchStarts(n) == {i \in 0..(n - 1) : i % BATCH_SIZE = 0}

\* the vectors of the batch that starts at chunk i (rag_service.py:1003-1051)
BatchVectors(chunks, i) ==
    [j \in 1..(Min(i + BATCH_SIZE, Len(chunks)) - i) |->
        [id |-> ChunkId(chunks[i + j], i + j - 1),
         src |-> Get(chunks[i + j].metadata, K("source")).s]]

\* vector_ids of the status update (session_rag.py:170-172, 341-343)
RegistryVectorIds(file_name, chunks_count) ==
    {file_name \o <<"_chunk_", ToString(i)>> : i \in 0..(chunks_count - 1)}

\* a handler that does not wait for the upsert loop
LoopEndedAlways(st) == TRUE

\* upload_document has returned: the loop ran to its end or a batch raised
LoopEnded(st) == st.raised \/ st.i >= Len(st.chunks)

\* auto-process has downloaded and saved the file of paper 1
InitBatches ==
    LET file_name == AutoFileName(1, <<"a">>) IN
    /\ reg = [p \in Papers |-> NoDoc]
    /\ rag = [s \in Sessions |-> NoRag]
    /\ members = [s \in Sessions |-> {}]
    /\ disk = {file_name}
    /\ index = {}
    /\ idxGen = 0
    /\ idxHybrid = TRUE
    /\ embCache = FALSE
    /\ bm25 = "none"
    /\ vsCache = NoCache
    /\ qaCache = NoCache
    /\ last \in {[op |-> "saved", file_name |-> file_name, chunks |-> cs,
                  i |-> 0, order |-> <<>>, failed |-> {}, raised |-> FALSE,
                  count |-> 0, vector_ids |-> {}] :
                    cs \in BatchChunkLists(file_name)}

\* the record is created and set to processing (session_rag.py:123-148)
StartProcessing ==
    /\ last.op = "saved"
    /\ reg' = UpdateRagStatus(CreateOrReset(reg, reg[1], 1, last.file_name, TRUE),
                              1, "processing", TRUE)
    /\ last' = [last EXCEPT !.op = "upserting"]
    /\ UNCHANGED <<rag, members, disk, index, idxGen, idxHybrid,
                   embCache, bm25, vsCache, qaCache>>

\* one turn of the loop of upsert_documents_to_index (rag_service.py:998-1075):
\* the hybrid upsert succeeds, or the dense-only retry does, or both raise
UpsertBatch ==
    /\ last.op = "upserting"
    /\ ~LoopEnded(last)
    /\ \E how \in {"hybrid", "dense", "raise"} :
        LET vs == BatchVectors(last.chunks, last.i) IN
        IF how = "raise"
        THEN /\ last' = [last EXCEPT !.raised = TRUE,
                            !.failed = @ \cup {last.i}]
             /\ UNCHANGED index
        ELSE /\ index' = PineconeUpsert(index, vs)
             /\ last' = [last EXCEPT !.i = @ + BATCH_SIZE,
                            !.count = @ + Len(vs),
                            !.order = Append(@, [start |-> last.i, how |-> how])]
    /\ UNCHANGED <<reg, rag, members, disk, idxGen, idxHybrid,
                   embCache, bm25, vsCache, qaCache>>

\* upload_document returns and the handler writes the final status
\* (rag_service.py:946-958, session_rag.py:166-212)
FinishIngestion ==
    /\ last.op = "upserting"
    /\ LoopEnded(last)
    /\ LET result == [upserted |-> last.chunks # <<>> /\ ~last.raised,
                      chunks_upserted |-> IF last.raised THEN 0 ELSE last.count]
           ok == UploadSucceeded(result)
       IN  /\ reg' = IF ok
                     THEN UpdateRagCompleted(reg, 1, result.chunks_upserted, TRUE)
                     ELSE UpdateRagStatus(reg, 1, "failed", TRUE)
           /\ last' = [last EXCEPT !.op = "done",
                          !.vector_ids = IF ok
                              THEN RegistryVectorIds(reg[1].file_name,
                                                     result.chunks_upserted)
                              ELSE {}]
    /\ UNCHANGED <<rag, members, disk, index, idxGen, idxHybrid,
                   embCache, bm25, vsCache, qaCache>>

NextBatches == StartProcessing \/ UpsertBatch \/ FinishIngestion

SpecBatches == InitBatches /\ [][NextBatches]_vars

(* ------------------------------ properties ----------------------------- *)
\* the status changes the last request wrote to the registry
TransitionsWritten == {last.writes[i] : i \in 1..Len(last.writes)}

\* the papers of session s whose ingestion record is completed
CompletedPapersOf(s) == {p \in members[s] : reg[p].status = "completed"}

ScopedAskOps == {"ask_scoped", "paper_message"}

IngestionOps == {"auto_process", "process_paper"}

\* C1: an ingestion run (auto_process_paper_for_rag or process_paper_for_rag)
\* that has set the record to processing and has finished leaves the record
\* completed or failed, also when upload_document raised.
C1_RunEndsCompletedOrFailed ==
    (last.op \in IngestionOps /\ last.setProcessing)
        => reg[last.paper].status \in {"completed", "failed"}

\* the changes listed by the claim: creation in pending, pending ->
\* processing, processing -> completed, processing -> failed, failed ->
\* processing
ListedTransitions ==
    {<<"none", "pending">>, <<"pending", "processing">>,
     <<"processing", "completed">>, <<"processing", "failed">>,
     <<"failed", "processing">>}

ResetTransitions ==
    {<<"pending", "failed">>, <<"failed", "pending">>, <<"processing", "pending">>}

C3_SourcesBelongToSession ==
    last.op \in ScopedAskOps
        => last.sources \subseteq {reg[p].file_name : p \in CompletedPapersOf(last.paper)}

C5_EmptyScopeIsNormalResponse ==
    (last.op \in ScopedAskOps
        /\ (~(rag[last.paper].known /\ rag[last.paper].is_rag_enabled)
            \/ CompletedPapersOf(last.paper) = {}))
        => (last.http = 200 /\ last.msg \in {"not_enabled", "no_papers"})

\* C6: after remove_document(name) has returned, the index holds no chunk
\* whose source contains name, whatever the content and the size of the
\* index (also when it holds more vectors than one scan returns).  Stated
\* for the requests whose scan and deletes all succeeded.
C6_NoChunkOfTheDocumentLeft ==
    (last.op = "remove_document" /\ last.http = 200 /\ last.msg = "scanned")
        => \A c \in index : ~Contains(c.src, last.arg)

\* C7: remove_document(name) for an ingested document name takes exactly
\* the chunks of name out of the index (so the count drops by their number
\* and list_documents no longer shows name) and leaves the chunks of every
\* other document, also of documents whose names contain name.  Stated for
\* the requests whose scan and deletes all succeeded.
C7_RemovesExactlyTheDocument ==
    [][(last'.op = "remove_document" /\ last'.http = 200
            /\ last'.msg = "scanned"
            /\ \E c \in index : Basename(c.src) = last'.arg)
        => index' = {c \in index : Basename(c.src) # last'.arg}]_vars

\* C8: no operation requests a sparse encoding from the BM25 encoder while
\* the encoder is unfitted, also not the first ask of a fresh process.
C8_NoEncodingWhileUnfitted == ~last.encUnfitted

\* C9: when the encoder is unfitted and fitting it fails, the ingest still
\* completes with dense-only records, and the ask that follows retrieves
\* with dense vectors only: it requests no sparse encoding.
C9_FitFailureFallsBackToDense ==
    [][/\ (last'.op = "auto_process" /\ last'.fitRaised) => ~last'.sparse
       /\ (last.op = "auto_process" /\ last.fitRaised /\ last.msg = "completed"
              /\ last'.op = "ask")
           => (~last'.encUnfitted /\ ~last'.sparse)]_vars

\* C10: after the index has been recreated every process-level cache is
\* reset (vector-store handle and retriever, QA chain, BM25 encoder and its
\* fitted flag, embedding client), and no later request uses a handle that
\* was built for the deleted index.
C10_RecreateResetsCaches ==
    /\ last.op = "recreate_index"
           => (~vsCache.set /\ ~qaCache.set /\ bm25 = "none" /\ ~embCache)
    /\ ~last.staleHandle

\* a request has started BM25Encoder.fit: the fit raised, or the encoder
\* went from unfitted to fitted
FitStarted == last'.fitRaised \/ (bm25 # "fitted" /\ bm25' = "fitted")

\* C11: the BM25 encoder is fitted exactly once per process: the first
\* task that observes it unfitted performs the fit (so no task goes on
\* with an encoder it has seen unfitted), a task that follows a task that
\* started a fit starts none, and a fitted encoder is never fitted again.
C11_FittedExactlyOnce ==
    [][/\ last'.encUnfitted => FitStarted
       /\ last.fitRaised => ~FitStarted
       /\ bm25 = "fitted" => (bm25' = "fitted" /\ ~FitStarted)]_vars

\* hybrid retrieval is in use by the request just made: the retriever
\* asked the sparse encoder for an encoding
UsesSparseEncoder == last'.sparse \/ last'.encUnfitted

\* the process holds a dense-only vector store or chain: it was built after
\* the hybrid capability probe had answered False
ProbeRejected ==
    \/ vsCache.set /\ ~vsCache.hybrid
    \/ qaCache.set /\ ~qaCache.hybrid

\* C12: once the index has rejected the hybrid capability probe in a
\* process (a dense-only vector store or chain is cached), hybrid stays disabled:
\* the next request, whatever it is, neither retrieves with a hybrid
\* retriever nor upserts sparse values.
C12_HybridStaysDisabled ==
    [][ProbeRejected => ~UsesSparseEncoder]_vars

\* C13: after enable(s, u) has succeeded, a status read that reaches the
\* registry reports is_rag_enabled = true and enabled_by = u; after a
\* disable(s) that has succeeded (the session had been enabled before, or
\* there would be no row to disable), it reports is_rag_enabled = false.
C13_StatusFollowsEnableDisable ==
    \A s \in Sessions :
        LET status == GetSessionRagStatus(s, TRUE) IN
        /\ (last.op = "enable" /\ last.paper = s /\ last.http = 200)
              => (status.is_rag_enabled /\ status.enabled_by = last.by)
        /\ (last.op = "disable" /\ last.paper = s /\ last.http = 200)
              => (status.known /\ ~status.is_rag_enabled)

\* a session that user 8 had enabled has just been disabled
C13_EnabledThenDisabled ==
    \E s \in Sessions :
        /\ last.op = "disable" /\ last.paper = s /\ last.http = 200
        /\ rag[s].known /\ rag[s].enabled_by = 8

\* C14: after the chunks of P.pdf have been upserted, the index holds for
\* every chunk a vector whose metadata text and text_content both equal the
\* chunk's text, whose id is "P.pdf_page_<page>_chunk_<position>" and whose
\* id no other vector of the index has.
C14_StoredTextAndUniqueId ==
    last.op = "upserted" =>
        \A j \in 1..Len(last.chunks) :
            \E v \in index :
                /\ v.id = <<"P", ".pdf", "_page_">>
                          \o Get(last.chunks[j].metadata, K("page")).s
                          \o <<"_chunk_", ToString(j - 1)>>
                /\ Get(v.metadata, K("text")) = PyStr(last.chunks[j].page_content)
                /\ Get(v.metadata, K("text_content")) = PyStr(last.chunks[j].page_content)
                /\ \A w \in index : w # v => w.id # v.id

\* chunks of two pages have been upserted into an index that keeps vectors
\* of an earlier upload
C14_UpsertedBesideEarlierVectors ==
    /\ last.op = "upserted"
    /\ Len(last.chunks) >= 3
    /\ Len(last.pages) = 2
    /\ Cardinality(index) > Len(last.chunks)

\* the page a chunk was made from
PageOfChunk(c) ==
    last.pages[CHOOSE n \in 1..Len(last.pages) :
                  Get(last.pages[n].metadata, K("page")) = Get(c.metadata, K("page"))]

\* section i of the detected sections holds the lines [first, last) of c
\* and gives c its section value
LiesInSection(c, sections, i, n) ==
    /\ Get(c.metadata, K("section")) = PyStr(<<sections[i].name>>)
    /\ sections[i].line_number <= c.first
    /\ c.first < c.last
    /\ c.last <= (IF i < Len(sections) THEN sections[i + 1].line_number ELSE n)

\* C15 as stated: on a page with detected sections, every emitted chunk
\* has as section the name of exactly one detected section, within whose
\* half-open line range the lines of the chunk lie.
C15_EveryChunkLiesInItsSection ==
    last.op = "chunked" =>
        \A j \in 1..Len(last.chunks) :
            LET c == last.chunks[j]
                lines == PageOfChunk(c).lines
                sections == DetectPaperSections(lines)
            IN  sections # <<>> =>
                    Cardinality({i \in 1..Len(sections) :
                                   LiesInSection(c, sections, i, Len(lines))}) = 1

\* C15 amended: on a page with detected sections, every section_content
\* chunk has as section the name of exactly one detected section within
\* whose half-open line range its lines lie; every other chunk is a caption
\* chunk (figure or table) whose section is "Figures/Tables".
C15_SectionChunksLieInTheirSection ==
    last.op = "chunked" =>
        \A j \in 1..Len(last.chunks) :
            LET c == last.chunks[j]
                lines == PageOfChunk(c).lines
                sections == DetectPaperSections(lines)
            IN  sections # <<>> =>
                    IF Get(c.metadata, K("chunk_type")) = PyStr(<<"section_content">>)
                    THEN Cardinality({i \in 1..Len(sections) :
                                   LiesInSection(c, sections, i, Len(lines))}) = 1
                    ELSE /\ Get(c.metadata, K("chunk_type")).s \in {<<"figure">>, <<"table">>}
                         /\ Get(c.metadata, K("section")) = PyStr(<<"Figures/Tables">>)

\* a page with two sections and a caption has been chunked
C15_TwoSectionsAndCaption ==
    /\ last.op = "chunked"
    /\ \E j \in 1..Len(last.chunks) :
          Get(last.chunks[j].metadata, K("section")) = PyStr(<<"Abstract">>)
    /\ \E j \in 1..Len(last.chunks) :
          Get(last.chunks[j].metadata, K("section")) = PyStr(<<"Methods">>)
    /\ \E j \in 1..Len(last.chunks) :
          Get(last.chunks[j].metadata, K("section")) = PyStr(<<"Figures/Tables">>)

\* number of captions detected on the pages from the n-th on
RECURSIVE CaptionCount(_, _)
CaptionCount(pages, n) ==
    IF n > Len(pages) THEN 0
    ELSE Len(ExtractFiguresTables(pages[n].lines)) + CaptionCount(pages, n + 1)

\* C16: a PDF without any section heading is chunked into content chunks
\* for the body plus one figure or table chunk for each detected caption.
C16_CaptionChunksWithoutSections ==
    (/\ last.op = "chunked"
     /\ \A n \in 1..Len(last.pages) : DetectPaperSections(last.pages[n].lines) = <<>>)
    => LET typeOf(j) == Get(last.chunks[j].metadata, K("chunk_type")).s
           captionChunks == {j \in 1..Len(last.chunks) :
                                typeOf(j) \in {<<"figure">>, <<"table">>}}
       IN  /\ Cardinality(captionChunks) = CaptionCount(last.pages, 1)
           /\ \A j \in 1..Len(last.chunks) :
                 j \notin captionChunks => typeOf(j) = <<"content">>

\* C17: clean_metadata_for_pinecone is idempotent: cleaning a cleaned
\* dictionary gives the same dictionary.
C17_CleaningIsIdempotent ==
    last.op = "cleaned_again" => last.twice = last.once

\* a dictionary whose cleaning dropped an entry, turned a key into a
\* string and rewrote a list has been cleaned twice
C17_CleanedTwice ==
    /\ last.op = "cleaned_again"
    /\ Len(last.once) = 1
    /\ Len(last.metadata) = 2
    /\ last.once[1].k = PyStr(<<"1">>)
    /\ last.once[1].v = PyList(<<PyStr(<<"1">>), PyStr(<<"a">>)>>)

\* C18: auto-process given https://arxiv.org/abs/1234.5678, whose first
\* response is not application/pdf, requests
\* https://arxiv.org/pdf/1234.5678.pdf next; the downloaded file is kept in
\* the input folder under paper_<paper_id>_<sanitized_title>.pdf, the
\* sanitized title holding only letters, digits, '-' and '_'.
C18_RetriesAtPdfUrlAndSaves ==
    /\ (/\ last.op # "auto_request"
        /\ last.pdf_url = ARXIV_ABS
        /\ last.first.ok /\ ~last.first.pdf)
       => last.requested = <<ARXIV_ABS,
                             <<"https://arxiv.org", "/pdf/", "1234.5678", ".pdf">> >>
    /\ last.op \in {"saved", "registered"}
       => \E f \in disk :
             /\ Len(f) >= 4
             /\ SubSeq(f, 1, 3) = <<"paper_", PidTok(last.paper), "_">>
             /\ f[Len(f)] = ".pdf"
             /\ \A i \in 4..(Len(f) - 1) : f[i] \in Alnum \cup {"-", "_"}
             /\ Len(f) - 4 <= SAFE_TITLE_LEN

\* the retry of the abs-form URL has delivered the file of a paper whose
\* title had to be sanitized
C18_SavedAfterRetry ==
    /\ last.op = "registered"
    /\ last.pdf_url = ARXIV_ABS
    /\ last.first.ok /\ ~last.first.pdf
    /\ Len(last.requested) = 2
    /\ last.title = <<"a", "/", " ", "b">>
    /\ disk # {}

\* step a comes before step b among the steps of the last request
Precedes(a, b) ==
    \E i, j \in 1..Len(last.steps) :
        i < j /\ last.steps[i] = a /\ last.steps[j] = b

\* C19: in every ask and ask_scoped that reranks documents and calls the
\* LLM, the rerank runs after the retrieval and before the LLM is called.
C19_RerankBeforeLlm ==
    (/\ last.op \in {"ask"} \cup ScopedAskOps
     /\ \E i \in 1..Len(last.steps) : last.steps[i] = "rerank"
     /\ \E i \in 1..Len(last.steps) : last.steps[i] = "llm")
    => (Precedes("retrieve", "rerank") /\ Precedes("rerank", "llm"))

\* C20: when the filtered query of ask_scoped raises and the query without
\* filter succeeds, the response says that the fallback was used: its
\* metadata carries an entry that a response without fallback does not have.
C20_FallbackIsAnnotated ==
    (last.op \in ScopedAskOps /\ last.fallback)
        => last.meta \ (SCOPED_METADATA \cup NO_MATCH_METADATA
                         \cup SESSION_ASK_METADATA \cup CHAT_METADATA) # {}

\* C21: an ask that answers reports as metadata.total_sources at most the
\* top_k of the request (TOP_K when the request gives none).
C21_TotalSourcesAtMostTopK ==
    (last.op = "ask" /\ last.http = 200) => last.total <= last.top_k

\* C22: whenever DELETE /ai/documents/remove returns, the count it reports
\* (the return value of remove_document_chunks) is the number of chunks
\* that left the index, on the fallback path too.
C22_ReturnsDeletedCount ==
    [][(last'.op = "remove_document" /\ last'.http = 200)
          => last'.removed = Cardinality(index) - Cardinality(index')]_vars

C26_RegistryIdsAreIndexIds ==
    (last.op = "done" /\ reg[1].status = "completed")
        => /\ last.vector_ids = {v.id : v \in index}
           /\ Cardinality(last.vector_ids) = reg[1].chunks_count

\* C27: an ingestion that ends failed because a batch upsert failed leaves
\* none of its chunks in the index.
C27_FailedLeavesNoChunk ==
    (last.op = "done" /\ reg[1].status = "failed" /\ last.failed # {})
        => {v \in index : v.src = JoinInput(reg[1].file_name)} = {}

\* C24: when auto-process completes a record, whatever auto-process calls
\* came before, the chunks it upserted have the record's file_name as the
\* basename of their source, so the filter "data/input/" + file_name that
\* ask_scoped builds matches them.
C24_FileNameMatchesChunkSource ==
    [][(last'.op = "auto_process" /\ last'.msg = "completed")
          => /\ \A c \in index' \ index :
                    Basename(c.src) = reg'[last'.paper].file_name
             /\ \E c \in index' : c.src = JoinInput(reg'[last'.paper].file_name)]_vars

\* C25: in every reachable state a paper whose ingestion record is
\* completed has at least one chunk of its file in the index; removing the
\* paper from the session or clearing the index does not leave the record
\* completed with its chunks gone.
C25_CompletedHasChunks ==
    \A p \in Papers :
        reg[p].status = "completed"
            => \E c \in index : Contains(c.src, <<"paper_", PidTok(p), "_">>)

\* C28: a session-scoped ask answers "RAG is not enabled" only when the
\* is_rag_enabled stored in the registry for the session is false; a
\* registry that cannot be reached or answers with an error does not give
\* that answer.
C28_NotEnabledOnlyWhenStoredFalse ==
    (last.op \in {"ask_scoped", "paper_message"} /\ last.msg = "not_enabled")
        => ~(rag[last.paper].known /\ rag[last.paper].is_rag_enabled)

\* C29: on a page with at least one detected section heading every line of
\* the text is contained in an emitted chunk, the lines before the first
\* heading included. A line counts as contained when it lies in the lines
\* a chunk of the page was cut from, or when it is a caption line, whose
\* label and caption the caption chunk of the page repeats.
C29_EveryLineIsChunked ==
    last.op = "chunked" =>
        \A n \in 1..Len(last.pages) :
            DetectPaperSections(last.pages[n].lines) # <<>> =>
                \A l \in 0..(Len(last.pages[n].lines) - 1) :
                    \/ last.pages[n].lines[l + 1] \in FigureCaptions \cup TableCaptions
                    \/ \E j \in 1..Len(last.chunks) :
                          /\ Get(last.chunks[j].metadata, K("page"))
                                 = Get(last.pages[n].metadata, K("page"))
                          /\ last.chunks[j].first <= l
                          /\ l < last.chunks[j].last

\* C30: a failed upload_paper_to_session leaves the files of the input
\* folder as they were; a file that existed at paper_<paper_id>_<filename>
\* is not deleted.
C30_FailedUploadKeepsFiles ==
    [][(last'.op = "upload_paper" /\ last'.http = 500) => disk' = disk]_vars
====
